---- MODULE Spec2Model ----
(***************************************************************************)
(* Model of src/app.js: an HTTP proxy that caches the upcoming events of   *)
(* one calendar in the process-wide slot calendarEvents, refreshes the     *)
(* slot from a timer and from the read path, and serves it on GET /events. *)
(*                                                                         *)
(* Spec   the cache manager: module load, listen callback, timer, HTTP     *)
(*        handler, and settlement of the fetchEvents() promises.           *)
(* SpecT  the event transform of fetchEvents() applied to one raw event    *)
(*        drawn from a bounded set, and the serialisation of its result.   *)
(***************************************************************************)
EXTENDS Integers, Sequences, FiniteSets, TLC

VARIABLES
    calendarIdSet,   \* process.env.CALENDAR_ID !== undefined
    apiKeySet,       \* process.env.API_KEY !== undefined
    pc,              \* "load", "aborted", "running", "crashed", or "transform" (SpecT)
    listen,          \* "none", "pending", "up", "failed"
    timer,           \* setInterval(cacheEvents, ...) has been registered
    calendarEvents,  \* the cache slot (app.js line 50)
    inflight,        \* refresh cycles whose fetchEvents() promise is not settled
    nextId,          \* number of the next refresh cycle
    op,              \* the operation that produced this state
    ret,             \* the response of the GET /events of this step
    lastItems,       \* the provider's answer consumed by this step
    event,           \* SpecT: the raw event handed to the transform
    calEvent,        \* SpecT: the transformed event
    numEventsEnv,    \* process.env.NUM_EVENTS_TO_FETCH
    held,            \* the provider's upcoming events at the fetch settled by this step
    lastCycle,       \* the refresh cycle settled by this step
    startupId,       \* the number of the cycle the listen callback started, 0 for none
    overwrote,       \* this step replaced a value of an earlier cycle
    stored,          \* the provider's answer the slot's value was computed from
    repeated         \* this step stored the value of the answer that was stored before

vars == <<calendarIdSet, apiKeySet, pc, listen, timer, calendarEvents,
          inflight, nextId, op, ret, lastItems, event, calEvent,
          numEventsEnv, held, lastCycle, startupId, overwrote, stored, repeated>>

(***************************************************************************)
(* Bounds                                                                  *)
(***************************************************************************)
\* refresh cycles started in one run
MaxCycles == 3
\* events in one answer of the provider
MaxEvents == 2

(***************************************************************************)
(* JavaScript values.  A string is a sequence of characters; undefined is  *)
(* a value of its own.                                                     *)
(***************************************************************************)
Undefined == [def |-> FALSE, s |-> <<>>]

Str(s) == [def |-> TRUE, s |-> s]

\* ToBoolean of undefined or a string: undefined and "" are falsy
Truthy(v) == v.def /\ v.s # <<>>

\* a || b
Or(a, b) == IF Truthy(a) THEN a ELSE b

\* characters of the strings the provider sends: a plain one, and the two
\* that JSON escapes
QUOTE == "\""

BACKSLASH == "\\"

\* date-time and date strings of a raw event
TimeVals == {Undefined, Str(<<>>), Str(<<"a">>), Str(<<"b">>)}

\* summary, links, location, description of a raw event
TextVals == {Undefined, Str(<<>>), Str(<<"a", QUOTE, BACKSLASH>>)}

\* event.start / event.end: the nested object, or no such property
NoTime == [present |-> FALSE, dateTime |-> Undefined, date |-> Undefined]

TimeObj(dt, d) == [present |-> TRUE, dateTime |-> dt, date |-> d]

TimeObjs == {NoTime} \cup {TimeObj(dt, d) : dt \in TimeVals, d \in TimeVals}

Keys == <<"start", "end", "summary", "hangoutLink", "htmlLink", "location", "description">>

CopiedKeys == {"summary", "hangoutLink", "htmlLink", "location", "description"}

RawEvents ==
    [start : TimeObjs, end : TimeObjs, summary : TextVals, hangoutLink : TextVals,
     htmlLink : TextVals, location : TextVals, description : TextVals]

NoEvent ==
    [start |-> Undefined, end |-> Undefined, summary |-> Undefined,
     hangoutLink |-> Undefined, htmlLink |-> Undefined, location |-> Undefined,
     description |-> Undefined]

(***************************************************************************)
(* The event transform, app.js lines 129-141.  Reading .dateTime of a      *)
(* missing event.start / event.end throws a TypeError.                     *)
(***************************************************************************)
TransformThrows(ev) == ~ev.start.present \/ ~ev.end.present

PickTime_DateTimeOnly(t) == t.dateTime

PickTime(t) == Or(t.dateTime, t.date)

CopyField_Defaulted(v) == IF v.def THEN v ELSE Str(<<>>)

CopyField(v) == v

Transform(ev) ==
    [start       |-> PickTime(ev.start),
     end         |-> PickTime(ev.end),
     summary     |-> CopyField(ev.summary),
     hangoutLink |-> CopyField(ev.hangoutLink),
     htmlLink    |-> CopyField(ev.htmlLink),
     location    |-> CopyField(ev.location),
     description |-> CopyField(ev.description)]

(***************************************************************************)
(* JSON.stringify of an array of calEvent objects (line 152): a sequence   *)
(* of symbols.  A symbol is a punctuation character, a character of a      *)
(* string value, or a property name (its letters need no escaping and are  *)
(* kept as one symbol).  Properties whose value is undefined are omitted;  *)
(* the others appear in the order the properties were created.             *)
(***************************************************************************)
RECURSIVE Escape(_)
Escape(s) ==
    IF s = <<>> THEN <<>>
    ELSE (IF Head(s) \in {QUOTE, BACKSLASH} THEN <<BACKSLASH, Head(s)>> ELSE <<Head(s)>>)
         \o Escape(Tail(s))

Quote(s) == <<QUOTE>> \o Escape(s) \o <<QUOTE>>

Member(k, v) == <<QUOTE, k, QUOTE, ":">> \o Quote(v.s)

RECURSIVE Members(_, _, _)
Members(o, i, first) ==
    IF i > Len(Keys) THEN <<>>
    ELSE IF ~o[Keys[i]].def THEN Members(o, i + 1, first)
    ELSE (IF first THEN <<>> ELSE <<",">>) \o Member(Keys[i], o[Keys[i]])
         \o Members(o, i + 1, FALSE)

StringifyObject(o) == <<"{">> \o Members(o, 1, TRUE) \o <<"}">>

RECURSIVE Elements(_, _)
Elements(list, i) ==
    IF i > Len(list) THEN <<>>
    ELSE (IF i = 1 THEN <<>> ELSE <<",">>) \o StringifyObject(list[i])
         \o Elements(list, i + 1)

Stringify(list) == <<"[">> \o Elements(list, 1) \o <<"]">>

(***************************************************************************)
(* JSON.parse restricted to the texts Stringify produces: what a client of *)
(* GET /events reads back.  A property the text does not carry is          *)
(* undefined on the parsed object.                                         *)
(***************************************************************************)
RECURSIVE ReadString(_, _, _)
\* t[i] is the first symbol after the opening quote
ReadString(t, i, acc) ==
    IF t[i] = QUOTE THEN [s |-> acc, next |-> i + 1]
    ELSE IF t[i] = BACKSLASH THEN ReadString(t, i + 2, Append(acc, t[i + 1]))
    ELSE ReadString(t, i + 1, Append(acc, t[i]))

RECURSIVE ReadMembers(_, _, _)
\* t[i] is the opening quote of a property name, or the closing brace
ReadMembers(t, i, o) ==
    IF t[i] = "}" THEN [o |-> o, next |-> i + 1]
    ELSE IF t[i] = "," THEN ReadMembers(t, i + 1, o)
    ELSE LET k == t[i + 1]
             v == ReadString(t, i + 5, <<>>)
         IN  ReadMembers(t, v.next, [o EXCEPT ![k] = Str(v.s)])

RECURSIVE ReadElements(_, _, _)
\* t[i] is the opening brace of an element, a comma, or the closing bracket
ReadElements(t, i, list) ==
    IF t[i] = "]" THEN list
    ELSE IF t[i] = "," THEN ReadElements(t, i + 1, list)
    ELSE LET e == ReadMembers(t, i + 1, NoEvent)
         IN  ReadElements(t, e.next, Append(list, e.o))

Parse(t) == ReadElements(t, 2, <<>>)

(***************************************************************************)
(* The cache slot: undefined (line 50), the array calEvents that           *)
(* fetchEvents returns at line 126 (always empty there), or the string     *)
(* that it returns at line 152.                                            *)
(***************************************************************************)
CacheUndefined == [tag |-> "undefined", text |-> <<>>]

EmptyArray == [tag |-> "array", text |-> <<>>]

JsonText(t) == [tag |-> "string", text |-> t]

(***************************************************************************)
(* The provider.  calendar.events.list() rejects, or resolves with         *)
(* res.data.items being undefined or a list of raw events.                 *)
(***************************************************************************)
Rejects == [kind |-> "rejects", hasItems |-> FALSE, items |-> <<>>]

NoList == [kind |-> "data", hasItems |-> FALSE, items |-> <<>>]

\* no provider answer is consumed by this step
NoResp == [kind |-> "none", hasItems |-> FALSE, items |-> <<>>]

Items(l) == [kind |-> "data", hasItems |-> TRUE, items |-> l]

\* a timed event carrying every field
TimedEvent ==
    [start |-> TimeObj(Str(<<"a">>), Undefined), end |-> TimeObj(Str(<<"b">>), Undefined),
     summary |-> Str(<<"a", QUOTE, BACKSLASH>>), hangoutLink |-> Str(<<"a">>),
     htmlLink |-> Str(<<"a">>), location |-> Str(<<>>), description |-> Str(<<"a">>)]

\* an all-day event carrying the required fields only
AllDayEvent ==
    [start |-> TimeObj(Undefined, Str(<<"a">>)), end |-> TimeObj(Undefined, Str(<<"b">>)),
     summary |-> Undefined, hangoutLink |-> Undefined,
     htmlLink |-> Str(<<"b">>), location |-> Undefined, description |-> Undefined]

\* a malformed record: no start property
MalformedEvent == [AllDayEvent EXCEPT !.start = NoTime]

ProviderEvents == {TimedEvent, AllDayEvent}

SeqsUpTo(S, n) == UNION {[1..k -> S] : k \in 0..n}

\* what the provider does with a request: it fails, has no list, has one
\* malformed record, or holds up to MaxEvents upcoming events
Responses ==
    {Rejects, NoList, Items(<<MalformedEvent>>)}
        \cup {Items(l) : l \in SeqsUpTo(ProviderEvents, MaxEvents)}

(***************************************************************************)
(* NUM_EVENTS_TO_FETCH (line 18) and the maxResults of the request (line   *)
(* 119).  The environment gives a string or nothing; the provider reads    *)
(* the decimal number and answers with at most that many of the upcoming   *)
(* events it holds, in start-time order.                                   *)
(***************************************************************************)
\* unset (the default applies) or "1"
NumEnvVals == {Undefined, Str(<<"1">>)}

\* the decimal number a string of NumEnvVals denotes
NumberOf(v) == CASE v.s = <<"1">> -> 1

\* line 18: the default of process.env.NUM_EVENTS_TO_FETCH || 10
DEFAULT_NUM_EVENTS == 10

NumEventsToFetch_DefaultOnly(env) == DEFAULT_NUM_EVENTS

NumEventsToFetch(env) == IF Truthy(env) THEN NumberOf(env) ELSE DEFAULT_NUM_EVENTS

Take(l, n) == SubSeq(l, 1, IF Len(l) < n THEN Len(l) ELSE n)

\* the answer to a request for at most maxResults of the events in h
Answer(h, maxResults) ==
    IF h.kind = "data" /\ h.hasItems THEN Items(Take(h.items, maxResults)) ELSE h

(***************************************************************************)
(* fetchEvents(), lines 113-153, as a function of the provider's answer.   *)
(***************************************************************************)
\* line 124: !events || events.length === 0
NoEvents(resp) == ~resp.hasItems \/ Len(resp.items) = 0

\* the promise rejects: the awaited call rejected, or the transform threw
FetchThrows_DataOnly(resp) ==
    /\ ~(~resp.hasItems \/ Len(resp.items) = 0)
    /\ \E i \in 1..Len(resp.items) : TransformThrows(resp.items[i])

FetchThrows(resp) ==
    \/ resp.kind = "rejects"
    \/ /\ ~NoEvents(resp)
       /\ \E i \in 1..Len(resp.items) : TransformThrows(resp.items[i])

\* lines 129-141: events.map pushes one calEvent per event, in order
CalEvents_Reversed(items) == [i \in 1..Len(items) |-> Transform(items[Len(items) + 1 - i])]

CalEvents(items) == [i \in 1..Len(items) |-> Transform(items[i])]

\* the value the promise resolves with
FetchValue_UndefinedOnEmpty(resp) ==
    IF NoEvents(resp) THEN CacheUndefined
    ELSE JsonText(Stringify(CalEvents(resp.items)))

FetchValue(resp) ==
    IF NoEvents(resp) THEN EmptyArray
    ELSE JsonText(Stringify(CalEvents(resp.items)))

(***************************************************************************)
(* cacheEvents(), lines 97-106: starts fetchEvents() and returns; the      *)
(* promise has a fulfilment handler and no rejection handler.              *)
(***************************************************************************)
Origins == {"startup", "timer", "getEvents"}

CanStart == nextId <= MaxCycles

NoCycle == [id |-> 0, origin |-> "none", maxResults |-> 0]

cacheEvents_OneAtATime(origin) ==
    /\ inflight' = IF inflight = {}
                   THEN {[id |-> nextId, origin |-> origin,
                          maxResults |-> NumEventsToFetch(numEventsEnv)]}
                   ELSE inflight
    /\ nextId' = nextId + 1
    /\ startupId' = IF origin = "startup" THEN nextId ELSE startupId

cacheEvents(origin) ==
    /\ inflight' = inflight \cup {[id |-> nextId, origin |-> origin,
                                    maxResults |-> NumEventsToFetch(numEventsEnv)]}
    /\ nextId' = nextId + 1
    /\ startupId' = IF origin = "startup" THEN nextId ELSE startupId

\* line 101: calendarEvents = response
OnFulfilled_Accumulates(old, response) ==
    IF old.tag = "string" /\ response.tag = "string"
    THEN JsonText(Stringify(Parse(old.text) \o Parse(response.text)))
    ELSE response

OnFulfilled_KeepFirst(old, response) == IF old = CacheUndefined THEN response ELSE old

OnFulfilled(old, response) == response

\* lines 35 and 38: a required variable is undefined
ConfigMissing_IdOnly(cid, key) == ~cid

ConfigMissing(cid, key) == ~cid \/ ~key

\* line 88: calendarEvents === undefined
Unpopulated_Never(ce) == FALSE

Unpopulated_OrEmpty(ce) == ce \in {CacheUndefined, EmptyArray}

Unpopulated(ce) == ce = CacheUndefined

\* line 91: return calendarEvents
GetEventsReturn_Default(ce) == IF ce = CacheUndefined THEN EmptyArray ELSE ce

GetEventsReturn(ce) == ce

\* line 67
HTTP_OK == 200

NoRet == [status |-> 0, body |-> CacheUndefined]

IdleEvent == AllDayEvent

(***************************************************************************)
(* Spec: the cache manager                                                 *)
(***************************************************************************)
Init ==
    /\ calendarIdSet \in BOOLEAN
    /\ apiKeySet \in BOOLEAN
    /\ pc = "load"
    /\ listen = "none"
    /\ timer = FALSE
    /\ calendarEvents = CacheUndefined
    /\ inflight = {}
    /\ nextId = 1
    /\ op = "init"
    /\ ret = NoRet
    /\ lastItems = NoResp
    /\ event = IdleEvent
    /\ calEvent = NoEvent
    /\ numEventsEnv \in NumEnvVals
    /\ held = NoResp
    /\ lastCycle = NoCycle
    /\ startupId = 0
    /\ overwrote = FALSE
    /\ stored = NoResp
    /\ repeated = FALSE

\* lines 35-40: the precondition checks throw at module load
LoadAborts ==
    /\ pc = "load"
    /\ ConfigMissing(calendarIdSet, apiKeySet)
    /\ pc' = "aborted"
    /\ op' = "LoadAborts"
    /\ UNCHANGED <<calendarIdSet, apiKeySet, listen, timer, calendarEvents, inflight,
                   nextId, ret, lastItems, event, calEvent,
                   numEventsEnv, held, lastCycle, startupId, overwrote,
                   stored, repeated>>

\* lines 55-80: app.listen() is issued, the route and the interval are registered
Load ==
    /\ pc = "load"
    /\ ~ConfigMissing(calendarIdSet, apiKeySet)
    /\ pc' = "running"
    /\ listen' = "pending"
    /\ timer' = TRUE
    /\ op' = "Load"
    /\ UNCHANGED <<calendarIdSet, apiKeySet, calendarEvents, inflight, nextId, ret,
                   lastItems, event, calEvent,
                   numEventsEnv, held, lastCycle, startupId, overwrote,
                   stored, repeated>>

\* lines 56-61: the listen callback without error caches the first events
ListenUp_NoRefresh ==
    /\ pc = "running"
    /\ listen = "pending"
    /\ listen' = "up"
    /\ op' = "ListenUp"
    /\ ret' = NoRet
    /\ lastItems' = NoResp
    /\ held' = NoResp
    /\ lastCycle' = NoCycle
    /\ overwrote' = FALSE
    /\ repeated' = FALSE
    /\ UNCHANGED <<calendarIdSet, apiKeySet, pc, timer, calendarEvents, event, calEvent,
                   numEventsEnv, stored, inflight, nextId, startupId>>

ListenUp ==
    /\ pc = "running"
    /\ listen = "pending"
    /\ CanStart
    /\ listen' = "up"
    /\ cacheEvents("startup")
    /\ op' = "ListenUp"
    /\ ret' = NoRet
    /\ lastItems' = NoResp
    /\ held' = NoResp
    /\ lastCycle' = NoCycle
    /\ overwrote' = FALSE
    /\ repeated' = FALSE
    /\ UNCHANGED <<calendarIdSet, apiKeySet, pc, timer, calendarEvents, event, calEvent,
                   numEventsEnv, stored>>

\* lines 62-63: the port cannot be bound.  The callback logs the error, or
\* (a framework that hands the callback to the server's 'listening' event
\* only) the unhandled 'error' event ends the process.
ListenFails(crash) ==
    /\ pc = "running"
    /\ listen = "pending"
    /\ listen' = "failed"
    /\ pc' = IF crash THEN "crashed" ELSE pc
    /\ op' = "ListenFails"
    /\ ret' = NoRet
    /\ lastItems' = NoResp
    /\ held' = NoResp
    /\ lastCycle' = NoCycle
    /\ overwrote' = FALSE
    /\ repeated' = FALSE
    /\ UNCHANGED <<calendarIdSet, apiKeySet, timer, calendarEvents, inflight, nextId,
                   event, calEvent, numEventsEnv, startupId, stored>>

\* line 73: the interval fires cacheEvents.  The listen callback runs in
\* the tick after module load, before any timer can expire.
TimerTick ==
    /\ pc = "running"
    /\ timer
    /\ listen # "pending"
    /\ CanStart
    /\ cacheEvents("timer")
    /\ op' = "TimerTick"
    /\ ret' = NoRet
    /\ lastItems' = NoResp
    /\ held' = NoResp
    /\ lastCycle' = NoCycle
    /\ overwrote' = FALSE
    /\ repeated' = FALSE
    /\ UNCHANGED <<calendarIdSet, apiKeySet, pc, listen, timer, calendarEvents, event,
                   calEvent, numEventsEnv, stored>>

\* lines 66-70 and 87-92: GET /events sends getEvents() with status 200
GetEvents ==
    /\ pc = "running"
    /\ listen = "up"
    /\ IF Unpopulated(calendarEvents)
       THEN CanStart /\ cacheEvents("getEvents")
       ELSE UNCHANGED <<inflight, nextId, startupId>>
    /\ ret' = [status |-> HTTP_OK, body |-> GetEventsReturn(calendarEvents)]
    /\ op' = "GetEvents"
    /\ lastItems' = NoResp
    /\ held' = NoResp
    /\ lastCycle' = NoCycle
    /\ overwrote' = FALSE
    /\ repeated' = FALSE
    /\ UNCHANGED <<calendarIdSet, apiKeySet, pc, listen, timer, calendarEvents, event,
                   calEvent, numEventsEnv, stored>>

\* lines 99-105: the promise of cycle c fulfils and the handler stores the
\* value; h is what the provider holds when it answers the request of c
FetchResolved(c, h) ==
    LET resp == Answer(h, c.maxResults) IN
    /\ pc = "running"
    /\ c \in inflight
    /\ ~FetchThrows(resp)
    /\ calendarEvents' = OnFulfilled(calendarEvents, FetchValue(resp))
    /\ inflight' = inflight \ {c}
    /\ op' = "FetchResolved"
    /\ ret' = NoRet
    /\ lastItems' = resp
    /\ held' = h
    /\ lastCycle' = c
    /\ overwrote' = (calendarEvents # CacheUndefined)
    /\ stored' = resp
    /\ repeated' = (resp = stored)
    /\ UNCHANGED <<calendarIdSet, apiKeySet, pc, listen, timer, nextId, event, calEvent,
                   numEventsEnv, startupId>>

\* the promise of cycle c rejects; nothing handles the rejection.  The
\* runtime prints a warning and goes on, or ends the process, depending on
\* its version and its --unhandled-rejections mode.
FetchRejected(c, h, crash) ==
    LET resp == Answer(h, c.maxResults) IN
    /\ pc = "running"
    /\ c \in inflight
    /\ FetchThrows(resp)
    /\ inflight' = inflight \ {c}
    /\ pc' = IF crash THEN "crashed" ELSE pc
    /\ op' = "FetchRejected"
    /\ ret' = NoRet
    /\ lastItems' = resp
    /\ held' = h
    /\ lastCycle' = c
    /\ overwrote' = FALSE
    /\ repeated' = FALSE
    /\ UNCHANGED <<calendarIdSet, apiKeySet, listen, timer, calendarEvents, nextId,
                   event, calEvent, numEventsEnv, startupId, stored>>

Next ==
    \/ LoadAborts
    \/ Load
    \/ ListenUp
    \/ \E crash \in BOOLEAN : ListenFails(crash)
    \/ TimerTick
    \/ GetEvents
    \/ \E c \in inflight, h \in Responses : FetchResolved(c, h)
    \/ \E c \in inflight, h \in Responses, crash \in BOOLEAN : FetchRejected(c, h, crash)

Spec == Init /\ [][Next]_vars

(***************************************************************************)
(* SpecT: lines 129-152 applied to a provider answer of one raw event      *)
(***************************************************************************)
InitT ==
    /\ calendarIdSet = TRUE
    /\ apiKeySet = TRUE
    /\ pc = "transform"
    /\ listen = "none"
    /\ timer = FALSE
    /\ calendarEvents = CacheUndefined
    /\ inflight = {}
    /\ nextId = 1
    /\ op = "Draw"
    /\ ret = NoRet
    /\ lastItems = NoResp
    /\ event \in RawEvents
    /\ calEvent = NoEvent
    /\ numEventsEnv = Undefined
    /\ held = NoResp
    /\ lastCycle = NoCycle
    /\ startupId = 0
    /\ overwrote = FALSE
    /\ stored = NoResp
    /\ repeated = FALSE

\* the callback of events.map builds calEvent; line 152 serialises the list
TransformEvent ==
    /\ pc = "transform"
    /\ op = "Draw"
    /\ ~FetchThrows(Items(<<event>>))
    /\ calEvent' = CalEvents(<<event>>)[1]
    /\ calendarEvents' = FetchValue(Items(<<event>>))
    /\ op' = "Transform"
    /\ UNCHANGED <<calendarIdSet, apiKeySet, pc, listen, timer, inflight, nextId, ret,
                   lastItems, event, numEventsEnv, held, lastCycle, startupId, overwrote,
                   stored, repeated>>

\* event.start or event.end is missing: the callback throws
TransformEventThrows ==
    /\ pc = "transform"
    /\ op = "Draw"
    /\ FetchThrows(Items(<<event>>))
    /\ op' = "TransformThrows"
    /\ UNCHANGED <<calendarIdSet, apiKeySet, pc, listen, timer, calendarEvents, inflight,
                   nextId, ret, lastItems, event, calEvent,
                   numEventsEnv, held, lastCycle, startupId, overwrote,
                   stored, repeated>>

NextT ==
    \/ TransformEvent
    \/ TransformEventThrows

SpecT == InitT /\ [][NextT]_vars

(***************************************************************************)
(* Properties of the cache manager (Spec)                                  *)
(***************************************************************************)
\* a step that settled a refresh cycle
Settled(o) == o \in {"FetchResolved", "FetchRejected"}

\* C1: every getEvents() call, the first one on a fresh process included,
\* returns a populated value, never the undefined marker.
C1_GetEventsReturnsPopulated ==
    op = "GetEvents" => ret.body # CacheUndefined

\* C2: a refresh cycle whose external fetch fails does not write the cache
\* and is not retried (the step starts no new cycle and only removes the
\* failed one), and a getEvents() that follows it returns the content the
\* slot held before the failure.
C2_FailedFetchKeepsCache ==
    [][/\ (Settled(op') /\ lastItems'.kind = "rejects") =>
            /\ calendarEvents' = calendarEvents
            /\ nextId' = nextId
            /\ inflight' \subseteq inflight
            /\ Cardinality(inflight') = Cardinality(inflight) - 1
       /\ (Settled(op) /\ lastItems.kind = "rejects" /\ op' = "GetEvents") =>
            /\ ret'.body = calendarEvents
            /\ calendarEvents' = calendarEvents]_vars

\* a cycle has just failed on a cache of two events, and the process goes on
C2_Witness ==
    /\ op = "FetchRejected"
    /\ lastItems = Rejects
    /\ pc = "running"
    /\ calendarEvents.tag = "string"
    /\ Len(Parse(calendarEvents.text)) = 2

\* C3: a refresh whose fetch fails neither ends the process nor stops the
\* timer: in the state after the failure the process runs with its timer.
C3_FailedCycleKeepsRunning ==
    (Settled(op) /\ lastItems.kind = "rejects") => (pc = "running" /\ timer)

\* C4: on a populated cache (zero events included) getEvents() returns the
\* cache content, starts no refresh cycle and leaves the slot unchanged.
C4_PopulatedReadHasNoEffect ==
    [][(op' = "GetEvents" /\ calendarEvents # CacheUndefined) =>
            /\ ret'.body = calendarEvents
            /\ calendarEvents' = calendarEvents
            /\ inflight' = inflight
            /\ nextId' = nextId]_vars

\* a read of a cache that is populated with zero events
C4_Witness ==
    /\ op = "GetEvents"
    /\ calendarEvents = EmptyArray
    /\ ret.body = EmptyArray

\* C5: a fetch that returns an empty list or no list makes the cache the
\* empty list, and a getEvents() on that cache returns the empty list, not
\* the undefined marker, and starts no fetch.
C5_NoEventsStoresEmptyList ==
    [][/\ (op' = "FetchResolved" /\ NoEvents(lastItems')) =>
            /\ calendarEvents' = EmptyArray
            /\ calendarEvents' # CacheUndefined
       /\ (op = "FetchResolved" /\ NoEvents(lastItems) /\ op' = "GetEvents") =>
            /\ ret'.body = EmptyArray
            /\ inflight' = inflight
            /\ nextId' = nextId]_vars

\* the provider answered without a list and the cache is the empty list
C5_Witness ==
    /\ op = "FetchResolved"
    /\ lastItems = NoList
    /\ calendarEvents = EmptyArray

\* C6: GET /events answers with status 200 and the content the cache slot
\* holds at the time of the request, in every state in which it is served.
C6_AlwaysOkWithCache ==
    [][op' = "GetEvents" => (ret'.status = 200 /\ ret'.body = calendarEvents)]_vars

\* a request served from the unpopulated cache
C6_Witness ==
    /\ op = "GetEvents"
    /\ ret.status = 200
    /\ ret.body = CacheUndefined
    /\ calendarEvents = CacheUndefined

\* C7: a cycle whose fetch returned a non-empty list stores the transformed
\* events, one per raw event in the provider's order, whatever the slot held.
C7_StoresTransformedInOrder ==
    [][(op' = "FetchResolved" /\ ~NoEvents(lastItems')) =>
            /\ calendarEvents'.tag = "string"
            /\ Parse(calendarEvents'.text) =
                 [i \in 1..Len(lastItems'.items) |-> Transform(lastItems'.items[i])]]_vars

\* two different events were stored in the provider's order
C7_Witness ==
    /\ op = "FetchResolved"
    /\ lastItems = Items(<<TimedEvent, AllDayEvent>>)
    /\ Len(Parse(calendarEvents.text)) = 2
    /\ Parse(calendarEvents.text)[1].start = Str(<<"a">>)
    /\ Parse(calendarEvents.text)[2].summary = Undefined
    /\ nextId > 2

(***************************************************************************)
(* Properties of the event transform (SpecT)                               *)
(***************************************************************************)
\* the event a client reads back from the serialised cache
Served == Parse(calendarEvents.text)[1]

\* the property names the serialised cache carries
ServedKeys == {calendarEvents.text[i] : i \in 1..Len(calendarEvents.text)} \cap CopiedKeys

\* C8: when a start (end) date-time is present, the transformed start (end)
\* is that date-time string, whatever its value and whether or not an
\* all-day date is present too.
C8_DateTimePassesThrough ==
    op = "Transform" =>
        /\ event.start.dateTime.def => calEvent.start = event.start.dateTime
        /\ event.end.dateTime.def => calEvent.end = event.end.dateTime

\* C9: when only the all-day date is present for start (end), the
\* transformed start (end) is that date string.
C9_DateOnlyPassesThrough ==
    op = "Transform" =>
        /\ (~event.start.dateTime.def /\ event.start.date.def) =>
              (calEvent.start = event.start.date /\ Served.start = event.start.date)
        /\ (~event.end.dateTime.def /\ event.end.date.def) =>
              (calEvent.end = event.end.date /\ Served.end = event.end.date)

\* an all-day event went through the transform
C9_Witness ==
    /\ op = "Transform"
    /\ event.start = TimeObj(Undefined, Str(<<"a">>))
    /\ event.end = TimeObj(Undefined, Str(<<>>))
    /\ calEvent.start = Str(<<"a">>)
    /\ calEvent.end = Str(<<>>)

\* C10: each of summary, hangoutLink, htmlLink, location and description is
\* copied verbatim when the raw event has it, and is absent from the served
\* output (no property, no default) when the raw event has none.
C10_FieldsCopiedOrAbsent ==
    op = "Transform" =>
        \A k \in CopiedKeys :
            /\ event[k].def => (calEvent[k] = event[k] /\ Served[k] = event[k])
            /\ ~event[k].def => (~Served[k].def /\ k \notin ServedKeys)

\* an event with a summary to escape, an empty location and no description
C10_Witness ==
    /\ op = "Transform"
    /\ event.summary = Str(<<"a", QUOTE, BACKSLASH>>)
    /\ event.location = Str(<<>>)
    /\ event.description = Undefined
    /\ Served.summary = event.summary
    /\ ServedKeys = {"summary", "location"}

(***************************************************************************)
(* Further properties of the cache manager (Spec, SpecFair)                *)
(***************************************************************************)
\* ce is what a client expects the slot to hold after the answer resp
ExpectedStored(ce, resp) ==
    IF ~resp.hasItems \/ resp.items = <<>>
    THEN ce = EmptyArray
    ELSE /\ ce.tag = "string"
         /\ Parse(ce.text) = [i \in 1..Len(resp.items) |-> Transform(resp.items[i])]

\* C11: refresh is idempotent: a completed cycle whose fetch returned the
\* list the previously completed cycle got (the empty one included) leaves
\* the cache content as it was.
C11_RefreshIdempotent ==
    [][(op' = "FetchResolved" /\ lastItems' = stored) =>
            calendarEvents' = calendarEvents]_vars

\* a second cycle stored the value of the same two events again
C11_Witness ==
    /\ op = "FetchResolved"
    /\ repeated
    /\ overwrote
    /\ lastItems = Items(<<TimedEvent, AllDayEvent>>)
    /\ Len(Parse(calendarEvents.text)) = 2

\* C12: when CALENDAR_ID or API_KEY is absent the process aborts at load:
\* no listen, no timer, no refresh cycle and no request ever happens.
C12_MissingConfigAborts ==
    (~calendarIdSet \/ ~apiKeySet) =>
        /\ pc \in {"load", "aborted"}
        /\ listen = "none"
        /\ ~timer
        /\ nextId = 1
        /\ startupId = 0
        /\ inflight = {}
        /\ calendarEvents = CacheUndefined
        /\ op \in {"init", "LoadAborts"}
        /\ ret = NoRet

\* a run with a calendar id and no API key has aborted
C12_Witness ==
    /\ pc = "aborted"
    /\ calendarIdSet
    /\ ~apiKeySet
    /\ listen = "none"

\* NUM_EVENTS_TO_FETCH as the configuration table gives it
ConfiguredCount == IF numEventsEnv = Str(<<"1">>) THEN 1 ELSE 10

\* C13: every refresh cycle requests at most NUM_EVENTS_TO_FETCH events
\* (10 by default), and when the provider holds more than that the cache
\* after a successful refresh holds exactly NUM_EVENTS_TO_FETCH events.
C13_AtMostNumEvents ==
    /\ \A c \in inflight : c.maxResults = ConfiguredCount
    /\ op = "FetchResolved" =>
        /\ lastCycle.maxResults = ConfiguredCount
        /\ Len(lastItems.items) <= ConfiguredCount
        /\ (held.hasItems /\ Len(held.items) > ConfiguredCount) =>
              /\ calendarEvents.tag = "string"
              /\ Len(Parse(calendarEvents.text)) = ConfiguredCount

\* the provider held two events, one was asked for, one is cached
C13_Witness ==
    /\ op = "FetchResolved"
    /\ numEventsEnv = Str(<<"1">>)
    /\ held = Items(<<AllDayEvent, TimedEvent>>)
    /\ Len(Parse(calendarEvents.text)) = 1
    /\ Parse(calendarEvents.text)[1] = Transform(AllDayEvent)

\* a provider that fails, has no list, has two events, or has a malformed one
FairResponses == {Rejects, NoList, Items(<<TimedEvent, AllDayEvent>>), Items(<<MalformedEvent>>)}

\* a fetchEvents() promise in flight settles
Settle ==
    /\ op' \in {"FetchResolved", "FetchRejected"}
    /\ \E c \in inflight, h \in FairResponses :
          \/ FetchResolved(c, h)
          \/ \E crash \in BOOLEAN : FetchRejected(c, h, crash)

\* a process started with the default NUM_EVENTS_TO_FETCH
InitFair == Init /\ numEventsEnv = Undefined

NextFair ==
    \/ LoadAborts
    \/ Load
    \/ ListenUp
    \/ \E crash \in BOOLEAN : ListenFails(crash)
    \/ TimerTick
    \/ GetEvents
    \/ \E c \in inflight, h \in FairResponses : FetchResolved(c, h)
    \/ \E c \in inflight, h \in FairResponses, crash \in BOOLEAN : FetchRejected(c, h, crash)

\* the cache manager with every fetch in flight completing eventually
SpecFair == InitFair /\ [][NextFair]_vars /\ WF_vars(Settle)

\* C14: a getEvents() on the unpopulated cache starts a refresh cycle; when
\* that cycle's fetch settles successfully the cache holds the transformed
\* events in provider order; and, fetches completing eventually, the cycle
\* leads to a populated cache unless it is the cycle's fetch that fails or
\* the process has ended.
C14_FirstReadPopulates ==
    /\ [][/\ (op' = "GetEvents" /\ calendarEvents = CacheUndefined) =>
               \E c \in inflight' \ inflight : c.origin = "getEvents"
          /\ (op' = "FetchResolved" /\ lastCycle'.origin = "getEvents") =>
               ExpectedStored(calendarEvents', lastItems')]_vars
    /\ (\E c \in inflight : c.origin = "getEvents")
          ~> \/ calendarEvents # CacheUndefined
             \/ (op = "FetchRejected" /\ lastCycle.origin = "getEvents")
             \/ pc = "crashed"

\* the cycle started by a read is the first to populate the cache, with two events
C14_Witness ==
    /\ op = "FetchResolved"
    /\ lastCycle.origin = "getEvents"
    /\ ~overwrote
    /\ lastItems = Items(<<TimedEvent, AllDayEvent>>)
    /\ Parse(calendarEvents.text) = <<Transform(TimedEvent), Transform(AllDayEvent)>>

\* C15: with several cycles in flight, each one that succeeds overwrites
\* the cache with its own result when it completes, so that the cache after
\* all have settled is the result of the last one to complete, whatever the
\* order of invocation.
C15_LastToCompleteWins ==
    [][/\ (op' = "FetchResolved" /\ Cardinality(inflight) >= 2) =>
            ExpectedStored(calendarEvents', lastItems')
       /\ (inflight' = {} /\ stored' # NoResp) =>
            ExpectedStored(calendarEvents', stored')]_vars

\* the first cycle invoked completes last and replaces, with another result,
\* the value a cycle invoked later had stored
C15_Witness ==
    /\ op = "FetchResolved"
    /\ lastCycle.id = 1
    /\ overwrote
    /\ ~repeated
    /\ inflight = {}
    /\ ExpectedStored(calendarEvents, lastItems)

\* C16: the cache is never cleared: once populated, it is populated in
\* every later state.
C16_NeverCleared ==
    [][calendarEvents # CacheUndefined => calendarEvents' # CacheUndefined]_vars

\* a fetch of zero events has replaced a cache of events and the slot is populated
C16_Witness ==
    /\ op = "FetchResolved"
    /\ overwrote
    /\ ~repeated
    /\ lastItems = Items(<<>>)
    /\ calendarEvents # CacheUndefined

\* C17: the slot holds the unpopulated marker or a serialised list, and
\* getEvents() on a populated cache returns that serialised form, also
\* after a refresh whose fetch returned zero events.
C17_SlotIsSerialised ==
    /\ calendarEvents.tag \in {"undefined", "string"}
    /\ (op = "GetEvents" /\ ret.body # CacheUndefined) => ret.body.tag = "string"

\* C18: every timer-triggered refresh is preceded by the startup refresh,
\* and the startup refresh is issued in every run that gets past the
\* configuration checks (here: once the outcome of listen is known).
C18_StartupRefreshFirst ==
    /\ \A c \in inflight \cup {lastCycle} :
          c.origin = "timer" => (startupId # 0 /\ startupId < c.id)
    /\ (pc \in {"running", "crashed"} /\ listen # "pending") => startupId # 0

\* C18 as amended: no refresh is issued before the outcome of listen; in a
\* run whose listener comes up the first refresh is the startup refresh,
\* which so precedes every timer-triggered one; in a run whose listener
\* fails no startup refresh is issued.
C18_StartupRefreshFirstWhenListening ==
    /\ listen \in {"none", "pending"} => (nextId = 1 /\ startupId = 0)
    /\ listen = "up" =>
          /\ startupId = 1
          /\ \A c \in inflight \cup {lastCycle} :
                /\ c.origin = "timer" => startupId < c.id
                /\ c.origin = "startup" => c.id = startupId
    /\ listen = "failed" =>
          /\ startupId = 0
          /\ \A c \in inflight \cup {lastCycle} : c.origin # "startup"

\* the timer has triggered a refresh after the startup refresh
C18_Witness ==
    /\ listen = "up"
    /\ op = "TimerTick"
    /\ startupId = 1
    /\ \E c \in inflight : c.origin = "timer" /\ c.id = 2

\* C20: on the unpopulated cache every getEvents() starts one more refresh
\* cycle, whatever is in flight, and returns the slot as it is; a timer tick
\* starts one more cycle too; nothing merges or drops cycles.
C20_NoDeduplication ==
    [][/\ (op' = "GetEvents" /\ calendarEvents = CacheUndefined) =>
            /\ ret'.body = CacheUndefined
            /\ calendarEvents' = CacheUndefined
            /\ inflight \subseteq inflight'
            /\ Cardinality(inflight') = Cardinality(inflight) + 1
       /\ op' = "TimerTick" =>
            /\ inflight \subseteq inflight'
            /\ Cardinality(inflight') = Cardinality(inflight) + 1]_vars

\* three cycles were started and all three are in flight at a read
C20_Witness ==
    /\ op = "GetEvents"
    /\ ret.body = CacheUndefined
    /\ nextId = 4
    /\ Cardinality(inflight) = 3
    /\ \E c \in inflight : c.origin = "timer"

(***************************************************************************)
(* Further properties of the event transform (SpecT)                       *)
(***************************************************************************)
\* C19: the transform has no error outcome: every raw event is transformed,
\* and one with neither a start (end) date-time nor a start (end) date
\* yields an event, stored in the cache, whose start (end) is absent.
C19_TransformNeverFails ==
    op # "Draw" =>
        /\ op = "Transform"
        /\ calendarEvents.tag = "string"
        /\ (~event.start.dateTime.def /\ ~event.start.date.def) =>
              (~calEvent.start.def /\ ~Served.start.def)
        /\ (~event.end.dateTime.def /\ ~event.end.date.def) =>
              (~calEvent.end.def /\ ~Served.end.def)

====
